---------------------------- MODULE Spec2Model ----------------------------
(***************************************************************************)
(* A model of src/app.py: the BinanceClient request pipeline (timestamp,   *)
(* signature, dispatch, decode), the three validators and the cli_menu     *)
(* loop.                                                                   *)
(*                                                                         *)
(* Python values are tagged records [t, v].  A str is a tuple of one       *)
(* character strings, so that isalnum, endswith, upper, float() and str()  *)
(* are computed character by character.  A dict is a tuple of <<key,       *)
(* value>> pairs in insertion order.                                       *)
(***************************************************************************)
EXTENDS Integers, Sequences, FiniteSets, TLC

(* ------------------------------ bounds -------------------------------- *)
MaxClock == 2
MaxCalls == 2
MaxNumLen == 3
MaxSymLen == 5

(* --------------------------- Python values ---------------------------- *)
PyNone == [t |-> "None", v |-> <<>>]
PyStr(s) == [t |-> "str", v |-> s]
PyInt(n) == [t |-> "int", v |-> n]
PyFloat(f) == [t |-> "float", v |-> f]
PyDict(d) == [t |-> "dict", v |-> d]

RECURSIVE DictHas(_, _)
DictHas(d, k) ==
  IF d = <<>> THEN FALSE
  ELSE IF Head(d)[1] = k THEN TRUE ELSE DictHas(Tail(d), k)

RECURSIVE DictGet(_, _)
DictGet(d, k) ==
  IF d = <<>> THEN PyNone
  ELSE IF Head(d)[1] = k THEN Head(d)[2] ELSE DictGet(Tail(d), k)

(* d[k] = v : an existing key keeps its position, a new key goes last *)
DictSet(d, k, v) ==
  IF DictHas(d, k)
  THEN [i \in 1..Len(d) |-> IF d[i][1] = k THEN <<k, v>> ELSE d[i]]
  ELSE Append(d, <<k, v>>)

(* the mapping without key k (what a verifier strips before recomputing) *)
DictWithout(d, k) == SelectSeq(d, LAMBDA p : p[1] # k)

(* ------------------------------ float() ------------------------------- *)
DigitChars == {"0", "1", "2", "3", "4", "5", "6", "7", "8", "9"}
DigitVal(c) ==
  CASE c = "0" -> 0 [] c = "1" -> 1 [] c = "2" -> 2 [] c = "3" -> 3
    [] c = "4" -> 4 [] c = "5" -> 5 [] c = "6" -> 6 [] c = "7" -> 7
    [] c = "8" -> 8 [] c = "9" -> 9
DigitChar(n) == <<"0", "1", "2", "3", "4", "5", "6", "7", "8", "9">>[n + 1]

RECURSIVE NatOf(_)
NatOf(s) ==
  IF s = <<>> THEN 0
  ELSE NatOf(SubSeq(s, 1, Len(s) - 1)) * 10 + DigitVal(s[Len(s)])

RECURSIVE Pow10(_)
Pow10(e) == IF e = 0 THEN 1 ELSE 10 * Pow10(e - 1)

(* a float: k is "fin", "inf" or "nan"; a finite one is (-1)^neg * m / 10^e *)
Float(k, neg, m, e) == [k |-> k, neg |-> neg, m |-> m, e |-> e]

RECURSIVE Normal(_, _, _)
Normal(neg, m, e) ==
  IF e > 0 /\ m % 10 = 0 THEN Normal(neg, m \div 10, e - 1)
  ELSE Float("fin", neg, m, e)

HasSign(s) == Len(s) > 0 /\ s[1] \in {"-", "+"}
Unsigned(s) == IF HasSign(s) THEN Tail(s) ELSE s
IsNeg(s) == HasSign(s) /\ s[1] = "-"
Dots(s) == {i \in 1..Len(s) : s[i] = "."}
IsDecimal(s) ==
  /\ \A i \in 1..Len(s) : s[i] \in DigitChars \cup {"."}
  /\ Cardinality(Dots(s)) <= 1
  /\ \E i \in 1..Len(s) : s[i] \in DigitChars
IntPart(s) ==
  IF Dots(s) = {} THEN s ELSE SubSeq(s, 1, (CHOOSE i \in Dots(s) : TRUE) - 1)
FracPart(s) ==
  IF Dots(s) = {} THEN <<>>
  ELSE SubSeq(s, (CHOOSE i \in Dots(s) : TRUE) + 1, Len(s))

(* float(s) for a str of digits, sign, ".", and the letters of inf and nan
   (no exponent, underscore or blank occurs in the inputs drawn below):
   [ok |-> FALSE] stands for the ValueError *)
ParseFloat(s) ==
  LET u == Unsigned(s) IN
  IF u \in {<<"i", "n", "f">>, <<"i", "n", "f", "i", "n", "i", "t", "y">>}
  THEN [ok |-> TRUE, val |-> Float("inf", IsNeg(s), 0, 0)]
  ELSE IF u = <<"n", "a", "n">>
  THEN [ok |-> TRUE, val |-> Float("nan", IsNeg(s), 0, 0)]
  ELSE IF IsDecimal(u)
  THEN [ok |-> TRUE,
        val |-> Normal(IsNeg(s), NatOf(IntPart(u) \o FracPart(u)), Len(FracPart(u)))]
  ELSE [ok |-> FALSE, val |-> Float("nan", FALSE, 0, 0)]

(* f > 0 on floats: false for nan, true for +inf *)
FloatGtZero(f) ==
  CASE f.k = "nan" -> FALSE
    [] f.k = "inf" -> ~f.neg
    [] OTHER -> ~f.neg /\ f.m > 0

IsFinite(f) == f.k = "fin"

(* ------------------------------- str() -------------------------------- *)
RECURSIVE NatStr(_)
NatStr(n) ==
  IF n < 10 THEN <<DigitChar(n)>>
  ELSE NatStr(n \div 10) \o <<DigitChar(n % 10)>>

RECURSIVE FracStr(_, _)
FracStr(r, e) ==
  IF e = 0 THEN <<>> ELSE FracStr(r \div 10, e - 1) \o <<DigitChar(r % 10)>>

FloatStr(f) ==
  (IF f.neg /\ f.k # "nan" THEN <<"-">> ELSE <<>>) \o
  (CASE f.k = "inf" -> <<"i", "n", "f">>
     [] f.k = "nan" -> <<"n", "a", "n">>
     [] OTHER -> NatStr(f.m \div Pow10(f.e)) \o <<".">> \o
                   (IF f.e = 0 THEN <<"0">> ELSE FracStr(f.m % Pow10(f.e), f.e)))

(* str(v) as urlencode applies it to each value; a signature is a hex
   digest, kept as the term HMAC(secret, query) it stands for *)
Str(x) ==
  CASE x.t = "str" -> x.v
    [] x.t = "int" -> NatStr(x.v)
    [] x.t = "float" -> FloatStr(x.v)
    [] OTHER -> x

(* ------------------------- str methods used --------------------------- *)
UpperChar(c) ==
  CASE c = "b" -> "B" [] c = "u" -> "U" [] c = "s" -> "S" [] c = "d" -> "D"
    [] c = "t" -> "T" [] c = "c" -> "C" [] c = "y" -> "Y" [] c = "e" -> "E"
    [] c = "l" -> "L" [] OTHER -> c
Upper(s) == [i \in 1..Len(s) |-> UpperChar(s[i])]

AlnumChars ==
  DigitChars \cup {"B", "T", "C", "U", "S", "D", "Y", "E", "L",
                   "b", "t", "c", "u", "s", "d", "y", "e", "l"}
IsAlnum(s) == Len(s) > 0 /\ \A i \in 1..Len(s) : s[i] \in AlnumChars
EndsWith(s, suf) ==
  Len(s) >= Len(suf) /\ SubSeq(s, Len(s) - Len(suf) + 1, Len(s)) = suf
USDT == <<"U", "S", "D", "T">>

(* ----------------------------- validators ----------------------------- *)
Validated(ret, log) == [ret |-> ret, log |-> log]

validate_symbol(symbol) ==
  LET valid == IsAlnum(symbol) /\ EndsWith(symbol, USDT) IN
  Validated(valid, IF valid THEN <<>> ELSE <<"Invalid Symbol! Example: BTCUSDT">>)

validate_quantity(qty) ==
  LET f == ParseFloat(qty) IN
  IF f.ok THEN Validated(FloatGtZero(f.val), <<>>)
  ELSE Validated(FALSE, <<"Quantity must be a number!">>)

validate_price(price) ==
  LET f == ParseFloat(price) IN
  IF f.ok THEN Validated(FloatGtZero(f.val), <<>>)
  ELSE Validated(FALSE, <<"Price must be numeric!">>)


(* ------------------------------ inputs -------------------------------- *)
BTCUSDT == <<"B", "T", "C", "U", "S", "D", "T">>
BUY == <<"B", "U", "Y">>
SELL == <<"S", "E", "L", "L">>
MARKET == <<"M", "A", "R", "K", "E", "T">>
LIMIT == <<"L", "I", "M", "I", "T">>
GTC == <<"G", "T", "C">>

Sides == {BUY, SELL}
(* float arguments a caller of market_order / limit_order may pass *)
Quantities == {Float("fin", FALSE, 1, 2)}
Prices == {Float("fin", FALSE, 15, 1)}
Methods == {"GET", "POST"}

(* what the exchange, or the network, may answer *)
Causes == {"ConnectionError", "ReadTimeout"}
Responses ==
  {[status |-> 200, text |-> "{\"orderId\": 1}"],
   [status |-> 400, text |-> "{\"code\": -1021, \"msg\": \"stale\"}"],
   [status |-> 200, text |-> "null"],
   [status |-> 200, text |-> "not json"],
   [status |-> 502, text |-> "not json"]}

(* response.json(): [ok |-> FALSE] stands for the ValueError *)
JsonDecode(text) ==
  CASE text = "null" -> [ok |-> TRUE, val |-> PyNone]
    [] text = "{\"orderId\": 1}" ->
         [ok |-> TRUE, val |-> PyDict(<<<<"orderId", PyInt(1)>>>>)]
    [] text = "{\"code\": -1021, \"msg\": \"stale\"}" ->
         [ok |-> TRUE,
          val |-> PyDict(<<<<"code", PyInt(-1021)>>, <<"msg", PyStr(<<"s", "t", "a", "l", "e">>)>>>>)]
    [] OTHER -> [ok |-> FALSE, val |-> PyNone]

(* ------------------------------- state -------------------------------- *)
VARIABLES
  now,        \* the clock, in milliseconds (time.time() * 1000)
  pc,         \* position inside request(): idle, sign, send, decode, done
  calls,      \* number of calls of request() started so far
  method,     \* request()'s method argument
  signed,     \* request()'s signed argument
  params,     \* the dict object request() received (the caller keeps it)
  attempts,   \* HTTP dispatches made by the current call
  sent,       \* the last dispatch: <<>> or <<[method, url, query]>>
  outcome,    \* what the network answered to the current call
  response,   \* the response object of the current call
  result,     \* the value request() returns
  logged,     \* logger.error messages of the current call
  startClock, \* clock when the current call was entered
  signClock,  \* clock when the current call read its timestamp
  prev,       \* the previous completed call: <<>> or <<its record>>
  held,       \* the caller passed params itself and still holds the dict
  menu,       \* position inside cli_menu ("off": the client is driven directly)
  choice, symbol, side, qty, price,   \* locals of cli_menu
  vfn, vin, vout                      \* a validator, its argument, its outcome

reqVars == <<pc, calls, method, signed, params, attempts, sent, outcome,
             response, result, logged, startClock, signClock>>
menuVars == <<menu, choice, symbol, side, qty, price>>
valVars == <<vfn, vin, vout>>
vars == <<now, reqVars, prev, held, menuVars, valVars>>

(* ---------------------------- BinanceClient ---------------------------- *)
BASE_URL == "https://testnet.binancefuture.com"
ORDER_PATH == "/fapi/v1/order"
RecvWindow == 5000
api_secret == "secret"

_timestamp == now

(* urlencode(params): key=value pairs in the dict's order, values via str() *)
urlencode(d) == [i \in 1..Len(d) |-> <<d[i][1], Str(d[i][2])>>]

(* hmac.new(secret, urlencode(params), sha256).hexdigest(), as a term *)
_sign(p) == [t |-> "hmac", v |-> <<api_secret, urlencode(p)>>]

(* a variant that keeps a timestamp the dict already carries (setdefault) *)
SignParamsCached(p) ==
  LET p1 == IF DictHas(p, "timestamp") THEN p
            ELSE DictSet(p, "timestamp", PyInt(_timestamp))
      p2 == DictSet(p1, "recvWindow", PyInt(RecvWindow))
  IN DictSet(p2, "signature", _sign(p2))

(* lines 55-57 of request() on the dict p *)
SignParams(p) ==
  LET p1 == DictSet(p, "timestamp", PyInt(_timestamp))
      p2 == DictSet(p1, "recvWindow", PyInt(RecvWindow))
  IN DictSet(p2, "signature", _sign(p2))

NoOutcome == [kind |-> "none", cause |-> "", status |-> 0, text |-> ""]
NoResponse == [status |-> 0, text |-> ""]

(* request(method, path, params, signed) is entered *)
Enter(m, p, s) ==
  /\ pc = "idle"
  /\ calls < MaxCalls
  /\ calls' = calls + 1
  /\ method' = m
  /\ signed' = s
  /\ params' = p
  /\ attempts' = 0
  /\ outcome' = NoOutcome
  /\ response' = NoResponse
  /\ result' = PyNone
  /\ logged' = <<>>
  /\ startClock' = now
  /\ signClock' = now
  /\ pc' = IF s THEN "sign" ELSE "send"
  /\ UNCHANGED <<now, sent, prev, valVars>>

market_order(sym, sd, q) ==
  Enter("POST",
        <<<<"symbol", PyStr(sym)>>, <<"side", PyStr(sd)>>,
          <<"type", PyStr(MARKET)>>, <<"quantity", PyFloat(q)>>>>,
        TRUE)

limit_order(sym, sd, q, pr) ==
  Enter("POST",
        <<<<"symbol", PyStr(sym)>>, <<"side", PyStr(sd)>>,
          <<"type", PyStr(LIMIT)>>, <<"timeInForce", PyStr(GTC)>>,
          <<"quantity", PyFloat(q)>>, <<"price", PyFloat(pr)>>>>,
        TRUE)

(* if signed: timestamp, recvWindow, signature *)
Sign ==
  /\ pc = "sign"
  /\ params' = SignParams(params)
  /\ signClock' = now
  /\ pc' = "send"
  /\ UNCHANGED <<now, calls, method, signed, attempts, sent, outcome, response,
                 result, logged, startClock, prev, held, menuVars, valVars>>

Dispatch == [method |-> method, url |-> <<BASE_URL, ORDER_PATH>>, query |-> urlencode(params)]

(* session.get / session.post raised a RequestException *)
SendFails(c) ==
  /\ outcome' = [NoOutcome EXCEPT !.kind = "network", !.cause = c]
  /\ logged' = Append(logged, <<"Network Error", c>>)
  /\ result' = PyNone
  /\ response' = response
  /\ pc' = "done"

(* session.get / session.post returned a response *)
SendAnswers(st, tx) ==
  /\ outcome' = [NoOutcome EXCEPT !.kind = "response", !.status = st, !.text = tx]
  /\ response' = [status |-> st, text |-> tx]
  /\ UNCHANGED <<logged, result>>
  /\ pc' = "decode"

(* a variant that dispatches again after a first network failure *)
SendRetry ==
  /\ pc = "send"
  /\ attempts' = attempts + 1
  /\ sent' = <<Dispatch>>
  /\ \/ \E c \in Causes :
          IF attempts = 0
          THEN pc' = "send" /\ UNCHANGED <<outcome, logged, result, response>>
          ELSE SendFails(c)
     \/ \E r \in Responses : SendAnswers(r.status, r.text)
  /\ UNCHANGED <<now, calls, method, signed, params, startClock, signClock,
                 prev, held, menuVars, valVars>>

Send ==
  /\ pc = "send"
  /\ attempts' = attempts + 1
  /\ sent' = <<Dispatch>>
  /\ \/ \E c \in Causes : SendFails(c)
     \/ \E r \in Responses : SendAnswers(r.status, r.text)
  /\ UNCHANGED <<now, calls, method, signed, params, startClock, signClock,
                 prev, held, menuVars, valVars>>

(* a variant that turns an HTTP error status into the failure value *)
DecodedChecked(resp) ==
  LET d == JsonDecode(resp.text) IN
  IF d.ok /\ resp.status < 400 THEN [result |-> d.val, log |-> <<>>]
  ELSE [result |-> PyNone, log |-> <<<<"Invalid JSON Response", resp.text>>>>]

(* lines 72-79: the value returned for a response *)
Decoded(resp) ==
  LET d == JsonDecode(resp.text) IN
  IF d.ok THEN [result |-> d.val, log |-> <<>>]
  ELSE [result |-> PyNone, log |-> <<<<"Invalid JSON Response", resp.text>>>>]

Decode ==
  /\ pc = "decode"
  /\ result' = Decoded(response).result
  /\ logged' = logged \o Decoded(response).log
  /\ pc' = "done"
  /\ UNCHANGED <<now, calls, method, signed, params, attempts, sent, outcome,
                 response, startClock, signClock, prev, held, menuVars, valVars>>

(* the record kept of a completed call *)
Completed ==
  [outcome |-> outcome, result |-> result, signed |-> signed,
   sent |-> sent, signClock |-> signClock]

(* ------------------- the client driven by any caller ------------------- *)
Tick ==
  /\ now < MaxClock
  /\ now' = now + 1
  /\ UNCHANGED <<reqVars, prev, held, menuVars, valVars>>

CallMarketOrder ==
  /\ menu = "off"
  /\ \E sd \in Sides, q \in Quantities : market_order(BTCUSDT, sd, q)
  /\ held' = FALSE
  /\ UNCHANGED menuVars

CallLimitOrder ==
  /\ menu = "off"
  /\ \E sd \in Sides, q \in Quantities, pr \in Prices : limit_order(BTCUSDT, sd, q, pr)
  /\ held' = FALSE
  /\ UNCHANGED menuVars

(* request(method, path): params defaults to None and becomes {} *)
CallRequestNoParams ==
  /\ menu = "off"
  /\ \E m \in Methods : Enter(m, <<>>, TRUE)
  /\ held' = FALSE
  /\ UNCHANGED menuVars

(* request(method, path, p, signed=True) with a dict p the caller built *)
CallerDicts == {<<>>, <<<<"symbol", PyStr(BTCUSDT)>>>>}

CallRequest ==
  /\ menu = "off"
  /\ \E m \in Methods, p \in CallerDicts : Enter(m, p, TRUE)
  /\ held' = TRUE
  /\ UNCHANGED menuVars

(* request(method, path, p, signed=True) again, with the dict p that the
   caller passed to the previous call (which request() has mutated) *)
CallRequestAgain ==
  /\ menu = "off"
  /\ held
  /\ \E m \in Methods : Enter(m, params, TRUE)
  /\ UNCHANGED <<held, menuVars>>

Return ==
  /\ menu = "off"
  /\ pc = "done"
  /\ prev' = <<Completed>>
  /\ pc' = "idle"
  /\ UNCHANGED <<now, calls, method, signed, params, attempts, sent, outcome,
                 response, result, logged, startClock, signClock, held,
                 menuVars, valVars>>

NoInput == <<>>

InitReq ==
  /\ now = 0
  /\ pc = "idle"
  /\ calls = 0
  /\ method = "POST"
  /\ signed = FALSE
  /\ params = <<>>
  /\ attempts = 0
  /\ sent = <<>>
  /\ outcome = NoOutcome
  /\ response = NoResponse
  /\ result = PyNone
  /\ logged = <<>>
  /\ startClock = now
  /\ signClock = now
  /\ prev = <<>>
  /\ held = FALSE

InitIdleMenu ==
  /\ menu = "off"
  /\ choice = NoInput
  /\ symbol = NoInput
  /\ side = NoInput
  /\ qty = NoInput
  /\ price = NoInput

InitIdleVal ==
  /\ vfn = "none"
  /\ vin = NoInput
  /\ vout = <<>>

Init == InitReq /\ InitIdleMenu /\ InitIdleVal

Next ==
  \/ Tick
  \/ CallMarketOrder
  \/ CallLimitOrder
  \/ CallRequestNoParams
  \/ CallRequest
  \/ CallRequestAgain
  \/ Sign
  \/ Send
  \/ Decode
  \/ Return

Spec == Init /\ [][Next]_vars


(* ------------------------------ cli_menu ------------------------------- *)
RECURSIVE LStrip(_)
LStrip(s) == IF s # <<>> /\ Head(s) = " " THEN LStrip(Tail(s)) ELSE s
RECURSIVE RStrip(_)
RStrip(s) ==
  IF s # <<>> /\ s[Len(s)] = " " THEN RStrip(SubSeq(s, 1, Len(s) - 1)) ELSE s
Strip(s) == LStrip(RStrip(s))

(* what the user may type at each prompt *)
ChoiceInputs == {<<"1">>, <<" ", "2">>, <<"3", " ">>, <<"x">>}
SymbolInputs ==
  {<<"b", "t", "c", "u", "s", "d", "t">>, <<"B", "T", "C", "U", "S", "D">>,
   <<"B", "T", "C", "-", "U", "S", "D", "T">>}
SideInputs == {<<"b", "u", "y">>, SELL, <<"b", "u", "y", "s">>}
NumberInputs == {<<"1", ".", "5">>, <<"0">>, <<"e", "l">>, <<"i", "n", "f">>}

(* the request() steps leave cli_menu's locals alone *)
InMenu(A) == menu # "off" /\ A /\ UNCHANGED menuVars

MenuIdle == <<now, reqVars, prev, held, valVars>>

(* choice = input("Select: ").strip() and the branch taken *)
Select ==
  /\ menu = "select"
  /\ \E inp \in ChoiceInputs :
       /\ choice' = Strip(inp)
       /\ menu' = CASE choice' = <<"1">> -> "m_symbol"
                    [] choice' = <<"2">> -> "l_symbol"
                    [] choice' = <<"3">> -> "exit"
                    [] OTHER -> "select"
  /\ UNCHANGED <<symbol, side, qty, price, MenuIdle>>

(* symbol = input(...).upper(); if not validate_symbol(symbol): continue *)
ReadSymbol(at, next) ==
  /\ menu = at
  /\ \E inp \in SymbolInputs :
       /\ symbol' = Upper(inp)
       /\ menu' = IF validate_symbol(symbol').ret THEN next ELSE "select"
  /\ UNCHANGED <<choice, side, qty, price, MenuIdle>>

(* side = input(...).upper(); if side not in ("BUY", "SELL"): continue *)
ReadSide(at, next) ==
  /\ menu = at
  /\ \E inp \in SideInputs :
       /\ side' = Upper(inp)
       /\ menu' = IF side' \in {BUY, SELL} THEN next ELSE "select"
  /\ UNCHANGED <<choice, symbol, qty, price, MenuIdle>>

MarketSymbol == ReadSymbol("m_symbol", "m_side")
MarketSide == ReadSide("m_side", "m_qty")

(* a variant that only checks that the quantity is a number *)
MarketQtyUnchecked ==
  /\ menu = "m_qty"
  /\ \E inp \in NumberInputs :
       /\ qty' = inp
       /\ IF ParseFloat(inp).ok
          THEN /\ market_order(symbol, side, ParseFloat(inp).val)
               /\ menu' = "m_wait"
          ELSE /\ menu' = "select"
               /\ UNCHANGED MenuIdle
  /\ UNCHANGED <<choice, symbol, side, price, held>>

(* qty = input(...); if not validate_quantity(qty): continue;
   result = client.market_order(symbol, side, float(qty)) *)
MarketQty ==
  /\ menu = "m_qty"
  /\ \E inp \in NumberInputs :
       /\ qty' = inp
       /\ IF validate_quantity(inp).ret
          THEN /\ market_order(symbol, side, ParseFloat(inp).val)
               /\ menu' = "m_wait"
          ELSE /\ menu' = "select"
               /\ UNCHANGED MenuIdle
  /\ UNCHANGED <<choice, symbol, side, price, held>>

LimitSymbol == ReadSymbol("l_symbol", "l_side")
LimitSide == ReadSide("l_side", "l_qty")

(* qty = input(...); if not validate_quantity(qty): continue *)
LimitQty ==
  /\ menu = "l_qty"
  /\ \E inp \in NumberInputs :
       /\ qty' = inp
       /\ menu' = IF validate_quantity(inp).ret THEN "l_price" ELSE "select"
  /\ UNCHANGED <<choice, symbol, side, price, MenuIdle>>

(* price = input(...); if not validate_price(price): continue;
   result = client.limit_order(symbol, side, float(qty), float(price)) *)
LimitPrice ==
  /\ menu = "l_price"
  /\ \E inp \in NumberInputs :
       /\ price' = inp
       /\ IF validate_price(inp).ret
          THEN /\ limit_order(symbol, side, ParseFloat(qty).val, ParseFloat(inp).val)
               /\ menu' = "l_wait"
          ELSE /\ menu' = "select"
               /\ UNCHANGED MenuIdle
  /\ UNCHANGED <<choice, symbol, side, qty, held>>

(* logger.info(f"... Order Result: {result}") and back to the menu: the
   dict built by market_order / limit_order and the locals of request() are
   dropped, nothing of the call is kept *)
OrderResult ==
  /\ menu \in {"m_wait", "l_wait"}
  /\ pc = "done"
  /\ pc' = "idle"
  /\ menu' = "select"
  /\ method' = "POST"
  /\ signed' = FALSE
  /\ params' = <<>>
  /\ attempts' = 0
  /\ sent' = <<>>
  /\ outcome' = NoOutcome
  /\ response' = NoResponse
  /\ result' = PyNone
  /\ logged' = <<>>
  /\ startClock' = now
  /\ signClock' = now
  /\ UNCHANGED <<now, calls, prev, held, choice, symbol, side, qty, price, valVars>>

InitMenu ==
  /\ InitReq
  /\ InitIdleVal
  /\ menu = "select"
  /\ choice = NoInput
  /\ symbol = NoInput
  /\ side = NoInput
  /\ qty = NoInput
  /\ price = NoInput

NextMenu ==
  \/ Select
  \/ MarketSymbol
  \/ MarketSide
  \/ MarketQty
  \/ LimitSymbol
  \/ LimitSide
  \/ LimitQty
  \/ LimitPrice
  \/ OrderResult
  \/ InMenu(Sign)
  \/ InMenu(Send)
  \/ InMenu(Decode)
  \/ InMenu(Tick)

SpecMenu == InitMenu /\ [][NextMenu]_vars

(* ----------------------- the validators on their own -------------------- *)
SeqsUpTo(A, n) == UNION {[1..k -> A] : k \in 0..n}
NumberChars == {"0", "1", "5", "-", ".", "i", "n", "f", "a"}
SymbolChars == {"U", "S", "D", "T", "b", "-"}

ApplyValidator(f, x) ==
  CASE f = "validate_symbol" -> validate_symbol(x)
    [] f = "validate_quantity" -> validate_quantity(x)
    [] f = "validate_price" -> validate_price(x)

InitValidate ==
  /\ InitReq
  /\ InitIdleMenu
  /\ vfn \in {"validate_symbol", "validate_quantity", "validate_price"}
  /\ vin \in IF vfn = "validate_symbol" THEN SeqsUpTo(SymbolChars, MaxSymLen)
             ELSE SeqsUpTo(NumberChars, MaxNumLen)
  /\ vout = <<>>

Validate ==
  /\ vout = <<>>
  /\ vfn # "none"
  /\ vout' = <<ApplyValidator(vfn, vin)>>
  /\ UNCHANGED <<now, reqVars, prev, held, menuVars, vfn, vin>>

NextValidate == Validate

SpecValidate == InitValidate /\ [][NextValidate]_vars


(* ------------------------------- claims -------------------------------- *)
InCall == pc \in {"sign", "send", "decode", "done"}
Dispatched == InCall /\ attempts > 0
SentQuery == sent[1].query
QueryGet(q, k) == DictGet(q, k)
DecodeFailed(o) == o.kind = "response" /\ ~JsonDecode(o.text).ok
DecodeOk(o) == o.kind = "response" /\ JsonDecode(o.text).ok
PyEq(a, b) == a.t = b.t /\ a.v = b.v

(* C1: every signed dispatch carries timestamp and recvWindow=5000, and its
   signature is the HMAC of exactly the dispatched parameters, in their
   order, without the signature field itself. *)
CxC1 ==
  (Dispatched /\ signed) =>
    /\ DictHas(SentQuery, "timestamp")
    /\ QueryGet(SentQuery, "recvWindow") = NatStr(RecvWindow)
    /\ QueryGet(SentQuery, "signature").v =
         <<api_secret, DictWithout(SentQuery, "signature")>>

(* C2: a call makes exactly one HTTP dispatch: never a second one, and it
   does not reach its return without one. *)
ThmC2 ==
  /\ attempts <= 1
  /\ (pc \in {"decode", "done"} => attempts = 1)

WitC2 ==
  /\ pc = "done"
  /\ outcome.kind = "network"
  /\ attempts = 1
  /\ DictGet(params, "type") = PyStr(LIMIT)

(* C3: a transport failure is returned as a result that carries its cause:
   two failed sends with different causes return different results. *)
CxC3 ==
  (/\ pc = "done"
   /\ outcome.kind = "network"
   /\ prev # <<>>
   /\ prev[1].outcome.kind = "network"
   /\ prev[1].outcome.cause # outcome.cause)
    => ~PyEq(prev[1].result, result)

(* C4: an undecodable body is returned as a result that carries the body
   and the status, and that differs from the result of a network failure. *)
CxC4 ==
  (pc = "done" /\ DecodeFailed(outcome) /\ prev # <<>>) =>
    /\ prev[1].outcome.kind = "network" => ~PyEq(prev[1].result, result)
    /\ (DecodeFailed(prev[1].outcome) /\ prev[1].outcome # outcome)
         => ~PyEq(prev[1].result, result)

(* C8: a body that decodes is returned verbatim whatever the status, and a
   payload carrying an exchange error code is not the failure value. *)
ThmC8 ==
  (pc = "done" /\ DecodeOk(outcome)) =>
    /\ PyEq(result, JsonDecode(outcome.text).val)
    /\ logged = <<>>
    /\ (JsonDecode(outcome.text).val.t = "dict" => ~PyEq(result, PyNone))

WitC8 ==
  /\ pc = "done"
  /\ outcome.status = 400
  /\ result.t = "dict"
  /\ DictGet(result.v, "code") = PyInt(-1021)

(* C9: the timestamp a signed call signs and dispatches is the clock value
   read inside that call, between its entry and its dispatch; two signed
   calls that read different clock values carry different timestamps and
   different signatures. *)
ThmC9 ==
  (signed /\ pc \in {"send", "decode", "done"}) =>
    /\ startClock <= signClock /\ signClock <= now
    /\ DictGet(params, "timestamp") = PyInt(signClock)
    /\ Dispatched => QueryGet(SentQuery, "timestamp") = NatStr(signClock)
    /\ (Dispatched /\ prev # <<>> /\ prev[1].signed /\ prev[1].signClock # signClock)
         => /\ QueryGet(prev[1].sent[1].query, "timestamp")
                 # QueryGet(SentQuery, "timestamp")
            /\ QueryGet(prev[1].sent[1].query, "signature").v
                 # QueryGet(SentQuery, "signature").v

WitC9 ==
  /\ Dispatched
  /\ held
  /\ prev # <<>>
  /\ prev[1].signed
  /\ prev[1].signClock < startClock
  /\ startClock < signClock
  /\ DictHas(prev[1].sent[1].query, "timestamp")

(* C10: the failure value None is returned only for a network failure or an
   undecodable body, never for a body that decoded. *)
CxC10 ==
  (pc = "done" /\ PyEq(result, PyNone)) =>
    (outcome.kind = "network" \/ DecodeFailed(outcome))

(* C5: in cli_menu a request is in progress only for an iteration whose
   symbol, side, quantity and (limit order) price passed their checks. *)
ThmC5 ==
  /\ InCall => menu \in {"m_wait", "l_wait"}
  /\ menu \in {"m_wait", "l_wait"} =>
       /\ validate_symbol(symbol).ret
       /\ side \in {BUY, SELL}
       /\ validate_quantity(qty).ret
       /\ menu = "l_wait" => validate_price(price).ret
       /\ DictGet(params, "symbol") = PyStr(symbol)
       /\ DictGet(params, "side") = PyStr(side)
       /\ DictGet(params, "quantity") = PyFloat(ParseFloat(qty).val)
       /\ menu = "l_wait" => DictGet(params, "price") = PyFloat(ParseFloat(price).val)

WitC5 ==
  /\ menu = "l_wait"
  /\ Dispatched
  /\ calls = 2
  /\ qty = <<"i", "n", "f">>

(* C6: validate_quantity and validate_price return true exactly for an
   input that parses as a finite number greater than zero. *)
CxC6 ==
  (vout # <<>> /\ vfn \in {"validate_quantity", "validate_price"}) =>
    (vout[1].ret <=>
       /\ ParseFloat(vin).ok
       /\ IsFinite(ParseFloat(vin).val)
       /\ ~ParseFloat(vin).val.neg
       /\ ParseFloat(vin).val.m > 0)

(* C7: whenever a validator returns false it reports a reason. *)
CxC7 == (vout # <<>> /\ ~vout[1].ret) => vout[1].log # <<>>

=============================================================================
